---- MODULE Spec2Model ----
(***************************************************************************)
(* DefaultUserService (service/interfaces.go) over a UserRepository.       *)
(* The service is a pass-through: CreateUser, GetUser and DeleteUser make  *)
(* one repository call each; UpdateUser is a read (GetByID), an in-memory  *)
(* overwrite of Name and Email, and a write (Update).  Several callers may *)
(* run service methods concurrently; every repository call is atomic, so   *)
(* the only interleaving point inside the service is between UpdateUser's  *)
(* read and its write.                                                     *)
(*                                                                         *)
(* The repository adapter (repository/gorm_repository.go) is not part of   *)
(* the sources at hand: Repo* below follow the contract of the UserRepo-   *)
(* sitory interface as the specification states it (section 4.1).          *)
(***************************************************************************)
EXTENDS Naturals, Sequences, FiniteSets

\* Largest identifier the store hands out, and the identifiers callers ask for.
MaxID == 2

Procs  == {"p1", "p2"}
Names  == {"Ann", "Bob"}
Emails == {"x@e", "y@e"}
IDs    == 1..MaxID

Nil    == "nil"
NotFoundError == "NotFoundError"
ConflictError == "ConflictError"
StorageError  == "StorageError"

\* The zero value of a *models.User result (a nil pointer).
NoUser == [ID |-> 0, Name |-> "", Email |-> ""]

VARIABLES
    store,     \* the rows of the users table: a set of User records
    nextID,    \* the store's identifier sequence
    pc,        \* per caller: "idle", or "write" between UpdateUser's read and write
    arg,       \* per caller: the arguments of the UpdateUser call in progress
    cur,       \* per caller: UpdateUser's local `user` after the overwrite
    stale,     \* per caller in "write": another UpdateUser wrote the same id since the read
    deleted,   \* identifiers a DeleteUser call has removed successfully
    last       \* the service call that returned last: arguments, repository results, return value

vars == <<store, nextID, pc, arg, cur, stale, deleted, last>>

----------------------------------------------------------------------------
(* models.User *)

User(id, name, email) == [ID |-> id, Name |-> name, Email |-> email]

----------------------------------------------------------------------------
(* UserRepository, by its contract *)

Row(id) == CHOOSE u \in store : u.ID = id

Exists(id) == \E u \in store : u.ID = id

\* A Create over a table with no unique index on email.
RepoCreateNoIndex(user) ==
    {[err |-> StorageError, rows |-> store, next |-> nextID, user |-> user],
     [err |-> Nil,
      rows |-> store \cup {[user EXCEPT !.ID = nextID]},
      next |-> nextID + 1,
      user |-> [user EXCEPT !.ID = nextID]]}

\* Create: the set of possible outcomes.  A held email is a conflict; otherwise
\* the insert succeeds with the next identifier, or fails for another reason.
RepoCreate(user) ==
    IF \E u \in store : u.Email = user.Email
    THEN {[err |-> ConflictError, rows |-> store, next |-> nextID, user |-> user]}
    ELSE {[err |-> StorageError, rows |-> store, next |-> nextID, user |-> user],
          [err |-> Nil,
           rows |-> store \cup {[user EXCEPT !.ID = nextID]},
           next |-> nextID + 1,
           user |-> [user EXCEPT !.ID = nextID]]}

RepoGetByID(id) ==
    IF Exists(id)
    THEN [err |-> Nil, user |-> Row(id)]
    ELSE [err |-> NotFoundError, user |-> NoUser]

RepoUpdate(user) ==
    IF ~Exists(user.ID)
    THEN [err |-> NotFoundError, rows |-> store]
    ELSE IF \E u \in store : u.ID # user.ID /\ u.Email = user.Email
    THEN [err |-> ConflictError, rows |-> store]
    ELSE [err |-> Nil, rows |-> {u \in store : u.ID # user.ID} \cup {user}]

RepoDelete(id) ==
    IF Exists(id)
    THEN [err |-> Nil, rows |-> {u \in store : u.ID # id}]
    ELSE [err |-> NotFoundError, rows |-> store]

----------------------------------------------------------------------------
(* DefaultUserService *)

\* What a returned service call leaves in `last`: the call and its arguments,
\* the error and the User it returned, and the results of the repository calls
\* it made, in order.
Returned(op, id, name, email, err, user, calls) ==
    [op |-> op, id |-> id, name |-> name, email |-> email,
     err |-> err, user |-> user, calls |-> calls,
     follows |-> "", oldEmail |-> "", stale |-> FALSE]

\* The arguments of no call.
NoArg == [id |-> 0, name |-> "", email |-> ""]

\* The call `last` describes, when it succeeded on row `id`: what a GetUser
\* of `id` right after it follows.
Follows(id) ==
    IF last.err = Nil /\ last.id = id /\ last.op \in {"CreateUser", "UpdateUser"}
    THEN last.op ELSE ""

\* Another UpdateUser's copy of row `id` is out of date once caller p has written it.
Outdate(p, id) ==
    [q \in Procs |-> IF q # p /\ pc[q] = "write" /\ cur[q].ID = id THEN TRUE ELSE stale[q]]

\* A literal that leaves Name unset.
NewUserNoName(name, email) == User(0, "", email)

\* user := &models.User{Name: name, Email: email}
NewUser(name, email) == User(0, name, email)

\* An overwrite that forgets user.Email = email.
OverwriteNameOnly(user, name, email) == [user EXCEPT !.Name = name]

\* user.Name = name; user.Email = email
Overwrite(user, name, email) == [user EXCEPT !.Name = name, !.Email = email]

\* A CreateUser that drops the repository's error and reports success.
CreateUserSwallow(p, name, email) ==
    /\ pc[p] = "idle"
    /\ nextID <= MaxID
    /\ \E r \in RepoCreate(NewUser(name, email)) :
        /\ store' = r.rows
        /\ nextID' = r.next
        /\ last' = Returned("CreateUser", r.user.ID, name, email, Nil, NoUser, <<r.err>>)
    /\ UNCHANGED <<pc, arg, cur, stale, deleted>>

\* A CreateUser that calls Create once more when the first call fails.
CreateUserRetry(p, name, email) ==
    /\ pc[p] = "idle"
    /\ nextID <= MaxID
    /\ \E r \in RepoCreate(NewUser(name, email)) :
        IF r.err = Nil
        THEN /\ store' = r.rows
             /\ nextID' = r.next
             /\ last' = Returned("CreateUser", r.user.ID, name, email, r.err, NoUser, <<r.err>>)
        ELSE \E r2 \in RepoCreate(NewUser(name, email)) :
             /\ store' = r2.rows
             /\ nextID' = r2.next
             /\ last' = Returned("CreateUser", r2.user.ID, name, email, r2.err, NoUser,
                                 <<r.err, r2.err>>)
    /\ UNCHANGED <<pc, arg, cur, stale, deleted>>

CreateUser(p, name, email) ==
    /\ pc[p] = "idle"
    /\ nextID <= MaxID
    /\ \E r \in RepoCreate(NewUser(name, email)) :
        /\ store' = r.rows
        /\ nextID' = r.next
        /\ last' = Returned("CreateUser", r.user.ID, name, email, r.err, NoUser, <<r.err>>)
    /\ UNCHANGED <<pc, arg, cur, stale, deleted>>

\* A GetUser that reports a missing row as (nil, nil).
GetUserNilOnMissing(p, id) ==
    /\ pc[p] = "idle"
    /\ LET r == RepoGetByID(id) IN
        last' = [Returned("GetUser", id, "", "", Nil, r.user, <<r.err>>)
                    EXCEPT !.follows = Follows(id),
                           !.oldEmail = IF Follows(id) = "UpdateUser"
                                        THEN last.oldEmail ELSE ""]
    /\ UNCHANGED <<store, nextID, pc, arg, cur, stale, deleted>>

GetUser(p, id) ==
    /\ pc[p] = "idle"
    /\ LET r == RepoGetByID(id) IN
        last' = [Returned("GetUser", id, "", "", r.err, r.user, <<r.err>>)
                    EXCEPT !.follows = Follows(id),
                           !.oldEmail = IF Follows(id) = "UpdateUser"
                                        THEN last.oldEmail ELSE ""]
    /\ UNCHANGED <<store, nextID, pc, arg, cur, stale, deleted>>

\* UpdateUser up to the repository write: GetByID, the early return, the overwrite.
UpdateUserRead(p, id, name, email) ==
    /\ pc[p] = "idle"
    /\ LET r == RepoGetByID(id) IN
        IF r.err # Nil
        THEN /\ last' = Returned("UpdateUser", id, name, email, r.err, NoUser, <<r.err>>)
             /\ UNCHANGED <<pc, arg, cur, stale>>
        ELSE /\ pc' = [pc EXCEPT ![p] = "write"]
             /\ arg' = [arg EXCEPT ![p] = [id |-> id, name |-> name, email |-> email]]
             /\ cur' = [cur EXCEPT ![p] = Overwrite(r.user, name, email)]
             /\ stale' = [stale EXCEPT ![p] = FALSE]
             /\ UNCHANGED last
    /\ UNCHANGED <<store, nextID, deleted>>

\* A write step that re-inserts the row when Update reports it missing.
UpdateUserWriteUpsert(p) ==
    /\ pc[p] = "write"
    /\ LET r == RepoUpdate(cur[p]) IN
        /\ store' = IF r.err = NotFoundError THEN store \cup {cur[p]} ELSE r.rows
        /\ last' = [Returned("UpdateUser", arg[p].id, arg[p].name, arg[p].email,
                             IF r.err = NotFoundError THEN Nil ELSE r.err,
                             NoUser, <<Nil, r.err>>)
                        EXCEPT !.oldEmail = RepoGetByID(cur[p].ID).user.Email,
                               !.stale = stale[p]]
        /\ stale' = IF r.err = Nil
                    THEN [Outdate(p, cur[p].ID) EXCEPT ![p] = FALSE]
                    ELSE [stale EXCEPT ![p] = FALSE]
    /\ pc' = [pc EXCEPT ![p] = "idle"]
    /\ arg' = [arg EXCEPT ![p] = NoArg]
    /\ cur' = [cur EXCEPT ![p] = NoUser]
    /\ UNCHANGED <<nextID, deleted>>

\* A write step that refuses to overwrite a row written since its read.
UpdateUserWriteChecked(p) ==
    /\ pc[p] = "write"
    /\ LET r == IF stale[p] THEN [err |-> ConflictError, rows |-> store]
                ELSE RepoUpdate(cur[p]) IN
        /\ store' = r.rows
        /\ last' = [Returned("UpdateUser", arg[p].id, arg[p].name, arg[p].email,
                             r.err, NoUser, <<Nil, r.err>>)
                        EXCEPT !.oldEmail = RepoGetByID(cur[p].ID).user.Email,
                               !.stale = stale[p]]
        /\ stale' = IF r.err = Nil
                    THEN [Outdate(p, cur[p].ID) EXCEPT ![p] = FALSE]
                    ELSE [stale EXCEPT ![p] = FALSE]
    /\ pc' = [pc EXCEPT ![p] = "idle"]
    /\ arg' = [arg EXCEPT ![p] = NoArg]
    /\ cur' = [cur EXCEPT ![p] = NoUser]
    /\ UNCHANGED <<nextID, deleted>>

\* A write step that forces the row in when Update reports an email conflict.
UpdateUserWriteForce(p) ==
    /\ pc[p] = "write"
    /\ LET r == RepoUpdate(cur[p]) IN
        /\ store' = IF r.err = ConflictError
                    THEN {u \in store : u.ID # cur[p].ID} \cup {cur[p]}
                    ELSE r.rows
        /\ last' = [Returned("UpdateUser", arg[p].id, arg[p].name, arg[p].email,
                             r.err, NoUser, <<Nil, r.err>>)
                        EXCEPT !.oldEmail = RepoGetByID(cur[p].ID).user.Email,
                               !.stale = stale[p]]
        /\ stale' = IF r.err = Nil
                    THEN [Outdate(p, cur[p].ID) EXCEPT ![p] = FALSE]
                    ELSE [stale EXCEPT ![p] = FALSE]
    /\ pc' = [pc EXCEPT ![p] = "idle"]
    /\ arg' = [arg EXCEPT ![p] = NoArg]
    /\ cur' = [cur EXCEPT ![p] = NoUser]
    /\ UNCHANGED <<nextID, deleted>>

\* return s.repo.Update(user)
UpdateUserWrite(p) ==
    /\ pc[p] = "write"
    /\ LET r == RepoUpdate(cur[p]) IN
        /\ store' = r.rows
        /\ last' = [Returned("UpdateUser", arg[p].id, arg[p].name, arg[p].email,
                             r.err, NoUser, <<Nil, r.err>>)
                        EXCEPT !.oldEmail = RepoGetByID(cur[p].ID).user.Email,
                               !.stale = stale[p]]
        /\ stale' = IF r.err = Nil
                    THEN [Outdate(p, cur[p].ID) EXCEPT ![p] = FALSE]
                    ELSE [stale EXCEPT ![p] = FALSE]
    /\ pc' = [pc EXCEPT ![p] = "idle"]
    /\ arg' = [arg EXCEPT ![p] = NoArg]
    /\ cur' = [cur EXCEPT ![p] = NoUser]
    /\ UNCHANGED <<nextID, deleted>>

\* A DeleteUser that calls GetByID where it should call Delete.
DeleteUserLookup(p, id) ==
    /\ pc[p] = "idle"
    /\ LET r == RepoGetByID(id) IN
        /\ store' = store
        /\ last' = Returned("DeleteUser", id, "", "", r.err, NoUser, <<r.err>>)
        /\ deleted' = IF r.err = Nil THEN deleted \cup {id} ELSE deleted
    /\ UNCHANGED <<nextID, pc, arg, cur, stale>>

DeleteUser(p, id) ==
    /\ pc[p] = "idle"
    /\ LET r == RepoDelete(id) IN
        /\ store' = r.rows
        /\ last' = Returned("DeleteUser", id, "", "", r.err, NoUser, <<r.err>>)
        /\ deleted' = IF r.err = Nil THEN deleted \cup {id} ELSE deleted
    /\ UNCHANGED <<nextID, pc, arg, cur, stale>>

----------------------------------------------------------------------------

\* NewUserService(repo) over an empty store; no call has returned yet.
Init ==
    /\ store = {}
    /\ nextID = 1
    /\ pc = [p \in Procs |-> "idle"]
    /\ arg = [p \in Procs |-> NoArg]
    /\ cur = [p \in Procs |-> NoUser]
    /\ stale = [p \in Procs |-> FALSE]
    /\ deleted = {}
    /\ last = Returned("none", 0, "", "", Nil, NoUser, <<>>)

Next ==
    \E p \in Procs :
        \/ \E name \in Names, email \in Emails : CreateUser(p, name, email)
        \/ \E id \in IDs : GetUser(p, id)
        \/ \E id \in IDs, name \in Names, email \in Emails : UpdateUserRead(p, id, name, email)
        \/ UpdateUserWrite(p)
        \/ \E id \in IDs : DeleteUser(p, id)

Spec == Init /\ [][Next]_vars

----------------------------------------------------------------------------
(* Properties *)

\* Row `id` of the store after the step.
ExistsAfter(id) == \E u \in store' : u.ID = id

\* C1: a successful CreateUser(name, email), the email not held before, leaves
\* in the store exactly one row under a fresh store-assigned id carrying that
\* name and email, and a GetUser on that id right after returns that User.
C1_CreateThenGet ==
    [][ /\ \A p \in Procs, name \in Names, email \in Emails :
            (CreateUser(p, name, email) /\ last'.err = Nil) =>
                /\ ~\E u \in store : u.Email = email
                /\ last'.id # 0 /\ ~Exists(last'.id)
                /\ {u \in store' : u.ID = last'.id} = {User(last'.id, name, email)}
        /\ \A p \in Procs :
            (last.op = "CreateUser" /\ last.err = Nil /\ GetUser(p, last.id)) =>
                /\ last'.err = Nil
                /\ last'.user = User(last.id, last.name, last.email)
      ]_vars

C1_Witness ==
    /\ last.op = "GetUser" /\ last.follows = "CreateUser"
    /\ last.err = Nil /\ last.user \in store

\* C2: CreateUser(name, email) while a stored user holds that email returns
\* ConflictError and leaves the set of stored rows (and the identifier
\* sequence) as it was.
C2_DuplicateEmailConflict ==
    [][ \A p \in Procs, name \in Names, email \in Emails :
            (CreateUser(p, name, email) /\ \E u \in store : u.Email = email) =>
                /\ last'.op = "CreateUser"
                /\ last'.err = ConflictError
                /\ store' = store
                /\ nextID' = nextID
      ]_vars

C2_Witness ==
    /\ last.op = "CreateUser" /\ last.err = ConflictError
    /\ \E u \in store : u.Email = last.email /\ u.Name # last.name

\* C3: on an id with no row in the store, GetUser, UpdateUser and DeleteUser
\* each return NotFoundError and leave the store unchanged (UpdateUser returns
\* at its read and never reaches its write).
C3_AbsentIdNotFound ==
    [][ \A p \in Procs, id \in IDs :
            ~Exists(id) =>
                /\ GetUser(p, id) =>
                      (last'.err = NotFoundError /\ last'.user = NoUser /\ store' = store)
                /\ \A name \in Names, email \in Emails :
                      UpdateUserRead(p, id, name, email) =>
                          /\ last'.op = "UpdateUser" /\ last'.id = id
                          /\ last'.err = NotFoundError
                          /\ store' = store
                          /\ pc'[p] = "idle"
                /\ DeleteUser(p, id) =>
                      (last'.err = NotFoundError /\ store' = store)
      ]_vars

C3_Witness ==
    /\ last.op = "UpdateUser" /\ last.calls = <<NotFoundError>>
    /\ last.err = NotFoundError /\ ~Exists(last.id)

\* C4: a GetUser(id) right after a successful UpdateUser(id, newName, newEmail)
\* returns the User with that id, newName and newEmail; and a write whose new
\* email is the row's own current email succeeds and leaves exactly that row
\* under the id.
C4_UpdateThenGet ==
    [][ /\ \A p \in Procs :
            (last.op = "UpdateUser" /\ last.err = Nil /\ GetUser(p, last.id)) =>
                /\ last'.err = Nil
                /\ last'.user = User(last.id, last.name, last.email)
        /\ \A p \in Procs :
            (/\ UpdateUserWrite(p)
             /\ Exists(arg[p].id)
             /\ Row(arg[p].id).Email = arg[p].email) =>
                /\ last'.err = Nil
                /\ {u \in store' : u.ID = arg[p].id}
                      = {User(arg[p].id, arg[p].name, arg[p].email)}
      ]_vars

C4_Witness ==
    /\ last.op = "GetUser" /\ last.follows = "UpdateUser" /\ last.err = Nil
    /\ last.oldEmail = last.user.Email
    /\ last.user \in store

\* C5: a successful DeleteUser(id) leaves no row under id, and from then on
\* GetUser(id) and a further DeleteUser(id) return NotFoundError.
C5_DeletedStaysGone ==
    [][ /\ \A p \in Procs, id \in IDs :
            (DeleteUser(p, id) /\ last'.err = Nil) => (Exists(id) /\ ~ExistsAfter(id))
        /\ \A p \in Procs, id \in deleted :
            /\ GetUser(p, id) => (last'.err = NotFoundError /\ last'.user = NoUser)
            /\ DeleteUser(p, id) => last'.err = NotFoundError
      ]_vars

C5_Witness ==
    /\ last.op = "DeleteUser" /\ last.err = NotFoundError
    /\ last.id \in deleted

\* C6: a service call returns the result of the last repository call it made,
\* unchanged; every repository call before that one succeeded (no call follows
\* a failed one, none is retried); UpdateUser makes at most two calls and the
\* other operations one.
C6_ErrorsPropagate ==
    last.op # "none" =>
        /\ Len(last.calls) >= 1
        /\ Len(last.calls) <= (IF last.op = "UpdateUser" THEN 2 ELSE 1)
        /\ last.err = last.calls[Len(last.calls)]
        /\ \A i \in 1..(Len(last.calls) - 1) : last.calls[i] = Nil
        /\ last.err \in {Nil, NotFoundError, ConflictError, StorageError}

C6_Witness ==
    /\ last.op = "CreateUser" /\ last.err = StorageError
    /\ last.calls = <<StorageError>>

\* C7: when a DeleteUser has removed the row between UpdateUser's read and its
\* write, the write returns NotFoundError, UpdateUser returns it, and the row
\* is still absent afterwards.
C7_ConcurrentDeleteSurfaces ==
    [][ \A p \in Procs :
            (UpdateUserWrite(p) /\ arg[p].id \in deleted) =>
                /\ last'.op = "UpdateUser" /\ last'.id = arg[p].id
                /\ last'.calls = <<Nil, NotFoundError>>
                /\ last'.err = NotFoundError
                /\ ~ExistsAfter(arg[p].id)
      ]_vars

C7_Witness ==
    /\ last.op = "UpdateUser" /\ last.calls = <<Nil, NotFoundError>>
    /\ last.err = NotFoundError
    /\ last.id \in deleted /\ ~Exists(last.id)

\* Caller p's UpdateUser overlaps another UpdateUser of the same id: the other
\* has read and not yet written, or has written since p's read.
Interleaved(p) ==
    /\ pc[p] = "write"
    /\ \/ stale[p]
       \/ \E q \in Procs \ {p} : pc[q] = "write" /\ arg[q].id = arg[p].id

\* The row the write of caller p leaves under its id is the one its arguments name.
WroteOwnArgs(p) ==
    {u \in store' : u.ID = arg[p].id} = {User(arg[p].id, arg[p].name, arg[p].email)}

C9_ConflictLeavesRow ==
    [][ /\ \A p \in Procs :
            (/\ UpdateUserWrite(p)
             /\ Exists(arg[p].id)
             /\ \E u \in store : u.ID # arg[p].id /\ u.Email = arg[p].email) =>
                /\ last'.calls = <<Nil, ConflictError>>
                /\ last'.err = ConflictError
                /\ store' = store
        /\ \A p \in Procs, id \in IDs, name \in Names, email \in Emails :
            UpdateUserRead(p, id, name, email) => store' = store
      ]_vars

C9_Witness ==
    /\ last.op = "UpdateUser" /\ last.calls = <<Nil, ConflictError>>
    /\ Exists(last.id)
    /\ Row(last.id).Email # last.email /\ Row(last.id).Name # last.name

\* C10: in every reachable state no two stored rows share an email and no two
\* share an id.
C10_UniqueEmailAndId ==
    \A u \in store, v \in store :
        u # v => (u.Email # v.Email /\ u.ID # v.ID)

C10_Witness ==
    /\ Cardinality(store) = 2
    /\ \E p \in Procs : pc[p] = "write"
    /\ last.err = ConflictError

====
